---- MODULE Spec2Model ----
(***************************************************************************)
(* A model of a10.py: the pattern/action dispatcher search_pa_list with    *)
(* its one-slot context memory previous_name, the query loop around it,    *)
(* the handlers of pa_list and the infobox extractors they call.           *)
(*                                                                         *)
(* A Python str is the sequence of its code points, so that every          *)
(* character of Unicode can stand in a text; Str gives the sequence of a   *)
(* literal.  A call's outcome is a record: kind "return" with a value, or  *)
(* kind "raise" with the name of the exception.                            *)
(***************************************************************************)
EXTENDS Integers, Sequences, FiniteSets, TLC

VARIABLES
  previous_name,  \* the global of line 10, the context memory
  pc,             \* where query_loop stands: awaiting, terminated or crashed
  last,           \* the last call of search_pa_list: its query and what it did
  wiki,           \* the page under a direct call of an extractor or handler
  called          \* the function of that direct call and its outcome

vars == <<previous_name, pc, last, wiki, called>>

(***************************************************************************)
(* Bounds of the model.                                                    *)
(***************************************************************************)
\* the longest run of tokens a query puts in the place of the wildcard
MaxCapture == 2
\* the number of blocks an infobox text is made of
MaxBlocks == 2

(***************************************************************************)
(* Outcomes.                                                               *)
(***************************************************************************)
RetS(v) == [kind |-> "return", value |-> v, exc |-> ""]
RaiseS(e) == [kind |-> "raise", value |-> <<>>, exc |-> e]
RetL(v) == [kind |-> "return", value |-> v, exc |-> ""]
RaiseL(e) == [kind |-> "raise", value |-> <<>>, exc |-> e]

(***************************************************************************)
(* Literals.  The characters U+0020 to U+005F and U+0061 to U+007E, in     *)
(* the order of their code points; U+0060, the backquote, stands between   *)
(* the two rows.                                                           *)
(***************************************************************************)
AsciiFrom32 == " !\"#$%&'()*+,-./0123456789:;<=>?@ABCDEFGHIJKLMNOPQRSTUVWXYZ[\\]^_"
AsciiFrom97 == "abcdefghijklmnopqrstuvwxyz{|}~"

IndexIn(row, c) == CHOOSE i \in 1..Len(row) : SubSeq(row, i, i) = c

\* ord(c), for a character of a literal
Ord(c) ==
  CASE c = "\t" -> 9
    [] c = "\n" -> 10
    [] c = "\f" -> 12
    [] c = "\r" -> 13
    [] \E i \in 1..Len(AsciiFrom32) : SubSeq(AsciiFrom32, i, i) = c ->
         31 + IndexIn(AsciiFrom32, c)
    [] OTHER -> 96 + IndexIn(AsciiFrom97, c)

\* the str of a literal
Str(lit) == [i \in 1..Len(lit) |-> Ord(SubSeq(lit, i, i))]

Ch(s, i) == s[i]

Range(f) == {f[i] : i \in DOMAIN f}

Min(S) == CHOOSE x \in S : \A y \in S : x <= y

Max(S) == CHOOSE x \in S : \A y \in S : y <= x

(***************************************************************************)
(* The constants of the module string.                                     *)
(***************************************************************************)
ascii_lowercase == Str("abcdefghijklmnopqrstuvwxyz")
ascii_uppercase == Str("ABCDEFGHIJKLMNOPQRSTUVWXYZ")
ascii_letters == ascii_lowercase \o ascii_uppercase
digits == Str("0123456789")
\* the backquote is U+0060
punctuation == Str("!\"#$%&'()*+,-./:;<=>?@[\\]^_") \o <<96>> \o Str("{|}~")
\* the vertical tab is U+000B
whitespace == Str(" \t\n\r") \o <<11>> \o Str("\f")
printable == digits \o ascii_letters \o punctuation \o whitespace

\* the characters of string.printable
Printable == Range(printable)

(***************************************************************************)
(* The character data of Python 3.11 (Unicode 14.0) that str.lower and the *)
(* class \d read.                                                          *)
(***************************************************************************)
\* <<first, last, step, d>>: the characters first, first + step, ... last
\* have the lower case c + d
LowerRanges ==
  { <<65, 90, 1, 32>>, <<192, 214, 1, 32>>, <<216, 222, 1, 32>>,
    <<256, 302, 2, 1>>, <<306, 310, 2, 1>>, <<313, 327, 2, 1>>,
    <<330, 374, 2, 1>>, <<376, 376, 1, -121>>, <<377, 381, 2, 1>>,
    <<385, 385, 1, 210>>, <<386, 388, 2, 1>>, <<390, 390, 1, 206>>,
    <<391, 391, 1, 1>>, <<393, 394, 1, 205>>, <<395, 395, 1, 1>>,
    <<398, 398, 1, 79>>, <<399, 399, 1, 202>>, <<400, 400, 1, 203>>,
    <<401, 401, 1, 1>>, <<403, 403, 1, 205>>, <<404, 404, 1, 207>>,
    <<406, 406, 1, 211>>, <<407, 407, 1, 209>>, <<408, 408, 1, 1>>,
    <<412, 412, 1, 211>>, <<413, 413, 1, 213>>, <<415, 415, 1, 214>>,
    <<416, 420, 2, 1>>, <<422, 422, 1, 218>>, <<423, 423, 1, 1>>,
    <<425, 425, 1, 218>>, <<428, 428, 1, 1>>, <<430, 430, 1, 218>>,
    <<431, 431, 1, 1>>, <<433, 434, 1, 217>>, <<435, 437, 2, 1>>,
    <<439, 439, 1, 219>>, <<440, 440, 1, 1>>, <<444, 444, 1, 1>>,
    <<452, 452, 1, 2>>, <<453, 453, 1, 1>>, <<455, 455, 1, 2>>,
    <<456, 456, 1, 1>>, <<458, 458, 1, 2>>, <<459, 475, 2, 1>>,
    <<478, 494, 2, 1>>, <<497, 497, 1, 2>>, <<498, 500, 2, 1>>,
    <<502, 502, 1, -97>>, <<503, 503, 1, -56>>, <<504, 542, 2, 1>>,
    <<544, 544, 1, -130>>, <<546, 562, 2, 1>>, <<570, 570, 1, 10795>>,
    <<571, 571, 1, 1>>, <<573, 573, 1, -163>>, <<574, 574, 1, 10792>>,
    <<577, 577, 1, 1>>, <<579, 579, 1, -195>>, <<580, 580, 1, 69>>,
    <<581, 581, 1, 71>>, <<582, 590, 2, 1>>, <<880, 882, 2, 1>>,
    <<886, 886, 1, 1>>, <<895, 895, 1, 116>>, <<902, 902, 1, 38>>,
    <<904, 906, 1, 37>>, <<908, 908, 1, 64>>, <<910, 911, 1, 63>>,
    <<913, 929, 1, 32>>, <<931, 939, 1, 32>>, <<975, 975, 1, 8>>,
    <<984, 1006, 2, 1>>, <<1012, 1012, 1, -60>>, <<1015, 1015, 1, 1>>,
    <<1017, 1017, 1, -7>>, <<1018, 1018, 1, 1>>, <<1021, 1023, 1, -130>>,
    <<1024, 1039, 1, 80>>, <<1040, 1071, 1, 32>>, <<1120, 1152, 2, 1>>,
    <<1162, 1214, 2, 1>>, <<1216, 1216, 1, 15>>, <<1217, 1229, 2, 1>>,
    <<1232, 1326, 2, 1>>, <<1329, 1366, 1, 48>>, <<4256, 4293, 1, 7264>>,
    <<4295, 4295, 1, 7264>>, <<4301, 4301, 1, 7264>>,
    <<5024, 5103, 1, 38864>>, <<5104, 5109, 1, 8>>, <<7312, 7354, 1, -3008>>,
    <<7357, 7359, 1, -3008>>, <<7680, 7828, 2, 1>>, <<7838, 7838, 1, -7615>>,
    <<7840, 7934, 2, 1>>, <<7944, 7951, 1, -8>>, <<7960, 7965, 1, -8>>,
    <<7976, 7983, 1, -8>>, <<7992, 7999, 1, -8>>, <<8008, 8013, 1, -8>>,
    <<8025, 8031, 2, -8>>, <<8040, 8047, 1, -8>>, <<8072, 8079, 1, -8>>,
    <<8088, 8095, 1, -8>>, <<8104, 8111, 1, -8>>, <<8120, 8121, 1, -8>>,
    <<8122, 8123, 1, -74>>, <<8124, 8124, 1, -9>>, <<8136, 8139, 1, -86>>,
    <<8140, 8140, 1, -9>>, <<8152, 8153, 1, -8>>, <<8154, 8155, 1, -100>>,
    <<8168, 8169, 1, -8>>, <<8170, 8171, 1, -112>>, <<8172, 8172, 1, -7>>,
    <<8184, 8185, 1, -128>>, <<8186, 8187, 1, -126>>, <<8188, 8188, 1, -9>>,
    <<8486, 8486, 1, -7517>>, <<8490, 8490, 1, -8383>>,
    <<8491, 8491, 1, -8262>>, <<8498, 8498, 1, 28>>, <<8544, 8559, 1, 16>>,
    <<8579, 8579, 1, 1>>, <<9398, 9423, 1, 26>>, <<11264, 11311, 1, 48>>,
    <<11360, 11360, 1, 1>>, <<11362, 11362, 1, -10743>>,
    <<11363, 11363, 1, -3814>>, <<11364, 11364, 1, -10727>>,
    <<11367, 11371, 2, 1>>, <<11373, 11373, 1, -10780>>,
    <<11374, 11374, 1, -10749>>, <<11375, 11375, 1, -10783>>,
    <<11376, 11376, 1, -10782>>, <<11378, 11378, 1, 1>>,
    <<11381, 11381, 1, 1>>, <<11390, 11391, 1, -10815>>,
    <<11392, 11490, 2, 1>>, <<11499, 11501, 2, 1>>, <<11506, 11506, 1, 1>>,
    <<42560, 42604, 2, 1>>, <<42624, 42650, 2, 1>>, <<42786, 42798, 2, 1>>,
    <<42802, 42862, 2, 1>>, <<42873, 42875, 2, 1>>,
    <<42877, 42877, 1, -35332>>, <<42878, 42886, 2, 1>>,
    <<42891, 42891, 1, 1>>, <<42893, 42893, 1, -42280>>,
    <<42896, 42898, 2, 1>>, <<42902, 42920, 2, 1>>,
    <<42922, 42922, 1, -42308>>, <<42923, 42923, 1, -42319>>,
    <<42924, 42924, 1, -42315>>, <<42925, 42925, 1, -42305>>,
    <<42926, 42926, 1, -42308>>, <<42928, 42928, 1, -42258>>,
    <<42929, 42929, 1, -42282>>, <<42930, 42930, 1, -42261>>,
    <<42931, 42931, 1, 928>>, <<42932, 42946, 2, 1>>,
    <<42948, 42948, 1, -48>>, <<42949, 42949, 1, -42307>>,
    <<42950, 42950, 1, -35384>>, <<42951, 42953, 2, 1>>,
    <<42960, 42960, 1, 1>>, <<42966, 42968, 2, 1>>, <<42997, 42997, 1, 1>>,
    <<65313, 65338, 1, 32>>, <<66560, 66599, 1, 40>>,
    <<66736, 66771, 1, 40>>, <<66928, 66938, 1, 39>>,
    <<66940, 66954, 1, 39>>, <<66956, 66962, 1, 39>>,
    <<66964, 66965, 1, 39>>, <<68736, 68786, 1, 64>>,
    <<71840, 71871, 1, 32>>, <<93760, 93791, 1, 32>>,
    <<125184, 125217, 1, 34>> }

\* <<first, last, step>>: the cased characters (Lowercase, Uppercase or
\* category Lt)
CasedRanges ==
  { <<65, 90, 1>>, <<97, 122, 1>>, <<170, 170, 1>>, <<181, 181, 1>>,
    <<186, 186, 1>>, <<192, 214, 1>>, <<216, 246, 1>>, <<248, 442, 1>>,
    <<444, 447, 1>>, <<452, 659, 1>>, <<661, 696, 1>>, <<704, 705, 1>>,
    <<736, 740, 1>>, <<837, 837, 1>>, <<880, 883, 1>>, <<886, 887, 1>>,
    <<890, 893, 1>>, <<895, 895, 1>>, <<902, 904, 2>>, <<905, 906, 1>>,
    <<908, 910, 2>>, <<911, 929, 1>>, <<931, 1013, 1>>, <<1015, 1153, 1>>,
    <<1162, 1327, 1>>, <<1329, 1366, 1>>, <<1376, 1416, 1>>,
    <<4256, 4293, 1>>, <<4295, 4295, 1>>, <<4301, 4301, 1>>,
    <<4304, 4346, 1>>, <<4349, 4351, 1>>, <<5024, 5109, 1>>,
    <<5112, 5117, 1>>, <<7296, 7304, 1>>, <<7312, 7354, 1>>,
    <<7357, 7359, 1>>, <<7424, 7615, 1>>, <<7680, 7957, 1>>,
    <<7960, 7965, 1>>, <<7968, 8005, 1>>, <<8008, 8013, 1>>,
    <<8016, 8023, 1>>, <<8025, 8031, 2>>, <<8032, 8061, 1>>,
    <<8064, 8116, 1>>, <<8118, 8124, 1>>, <<8126, 8126, 1>>,
    <<8130, 8132, 1>>, <<8134, 8140, 1>>, <<8144, 8147, 1>>,
    <<8150, 8155, 1>>, <<8160, 8172, 1>>, <<8178, 8180, 1>>,
    <<8182, 8188, 1>>, <<8305, 8305, 1>>, <<8319, 8319, 1>>,
    <<8336, 8348, 1>>, <<8450, 8450, 1>>, <<8455, 8455, 1>>,
    <<8458, 8467, 1>>, <<8469, 8469, 1>>, <<8473, 8477, 1>>,
    <<8484, 8490, 2>>, <<8491, 8493, 1>>, <<8495, 8500, 1>>,
    <<8505, 8505, 1>>, <<8508, 8511, 1>>, <<8517, 8521, 1>>,
    <<8526, 8526, 1>>, <<8544, 8575, 1>>, <<8579, 8580, 1>>,
    <<9398, 9449, 1>>, <<11264, 11492, 1>>, <<11499, 11502, 1>>,
    <<11506, 11507, 1>>, <<11520, 11557, 1>>, <<11559, 11559, 1>>,
    <<11565, 11565, 1>>, <<42560, 42605, 1>>, <<42624, 42653, 1>>,
    <<42786, 42887, 1>>, <<42891, 42894, 1>>, <<42896, 42954, 1>>,
    <<42960, 42961, 1>>, <<42963, 42965, 2>>, <<42966, 42969, 1>>,
    <<42997, 42998, 1>>, <<43000, 43002, 1>>, <<43824, 43866, 1>>,
    <<43868, 43880, 1>>, <<43888, 43967, 1>>, <<64256, 64262, 1>>,
    <<64275, 64279, 1>>, <<65313, 65338, 1>>, <<65345, 65370, 1>>,
    <<66560, 66639, 1>>, <<66736, 66771, 1>>, <<66776, 66811, 1>>,
    <<66928, 66938, 1>>, <<66940, 66954, 1>>, <<66956, 66962, 1>>,
    <<66964, 66965, 1>>, <<66967, 66977, 1>>, <<66979, 66993, 1>>,
    <<66995, 67001, 1>>, <<67003, 67004, 1>>, <<67456, 67456, 1>>,
    <<67459, 67461, 1>>, <<67463, 67504, 1>>, <<67506, 67514, 1>>,
    <<68736, 68786, 1>>, <<68800, 68850, 1>>, <<71840, 71903, 1>>,
    <<93760, 93823, 1>>, <<119808, 119892, 1>>, <<119894, 119964, 1>>,
    <<119966, 119967, 1>>, <<119970, 119970, 1>>, <<119973, 119974, 1>>,
    <<119977, 119980, 1>>, <<119982, 119993, 1>>, <<119995, 119997, 2>>,
    <<119998, 120003, 1>>, <<120005, 120069, 1>>, <<120071, 120074, 1>>,
    <<120077, 120084, 1>>, <<120086, 120092, 1>>, <<120094, 120121, 1>>,
    <<120123, 120126, 1>>, <<120128, 120132, 1>>, <<120134, 120134, 1>>,
    <<120138, 120144, 1>>, <<120146, 120485, 1>>, <<120488, 120512, 1>>,
    <<120514, 120538, 1>>, <<120540, 120570, 1>>, <<120572, 120596, 1>>,
    <<120598, 120628, 1>>, <<120630, 120654, 1>>, <<120656, 120686, 1>>,
    <<120688, 120712, 1>>, <<120714, 120744, 1>>, <<120746, 120770, 1>>,
    <<120772, 120779, 1>>, <<122624, 122633, 1>>, <<122635, 122654, 1>>,
    <<125184, 125251, 1>>, <<127280, 127305, 1>>, <<127312, 127337, 1>>,
    <<127344, 127369, 1>> }

\* <<first, last>>: the case-ignorable characters
CaseIgnorableRanges ==
  { <<39, 39>>, <<46, 46>>, <<58, 58>>, <<94, 94>>, <<96, 96>>, <<168, 168>>,
    <<173, 173>>, <<175, 175>>, <<180, 180>>, <<183, 184>>, <<688, 879>>,
    <<884, 885>>, <<890, 890>>, <<900, 901>>, <<903, 903>>, <<1155, 1161>>,
    <<1369, 1369>>, <<1375, 1375>>, <<1425, 1469>>, <<1471, 1471>>,
    <<1473, 1474>>, <<1476, 1477>>, <<1479, 1479>>, <<1524, 1524>>,
    <<1536, 1541>>, <<1552, 1562>>, <<1564, 1564>>, <<1600, 1600>>,
    <<1611, 1631>>, <<1648, 1648>>, <<1750, 1757>>, <<1759, 1768>>,
    <<1770, 1773>>, <<1807, 1807>>, <<1809, 1809>>, <<1840, 1866>>,
    <<1958, 1968>>, <<2027, 2037>>, <<2042, 2042>>, <<2045, 2045>>,
    <<2070, 2093>>, <<2137, 2139>>, <<2184, 2184>>, <<2192, 2193>>,
    <<2200, 2207>>, <<2249, 2306>>, <<2362, 2362>>, <<2364, 2364>>,
    <<2369, 2376>>, <<2381, 2381>>, <<2385, 2391>>, <<2402, 2403>>,
    <<2417, 2417>>, <<2433, 2433>>, <<2492, 2492>>, <<2497, 2500>>,
    <<2509, 2509>>, <<2530, 2531>>, <<2558, 2558>>, <<2561, 2562>>,
    <<2620, 2620>>, <<2625, 2626>>, <<2631, 2632>>, <<2635, 2637>>,
    <<2641, 2641>>, <<2672, 2673>>, <<2677, 2677>>, <<2689, 2690>>,
    <<2748, 2748>>, <<2753, 2757>>, <<2759, 2760>>, <<2765, 2765>>,
    <<2786, 2787>>, <<2810, 2815>>, <<2817, 2817>>, <<2876, 2876>>,
    <<2879, 2879>>, <<2881, 2884>>, <<2893, 2893>>, <<2901, 2902>>,
    <<2914, 2915>>, <<2946, 2946>>, <<3008, 3008>>, <<3021, 3021>>,
    <<3072, 3072>>, <<3076, 3076>>, <<3132, 3132>>, <<3134, 3136>>,
    <<3142, 3144>>, <<3146, 3149>>, <<3157, 3158>>, <<3170, 3171>>,
    <<3201, 3201>>, <<3260, 3260>>, <<3263, 3263>>, <<3270, 3270>>,
    <<3276, 3277>>, <<3298, 3299>>, <<3328, 3329>>, <<3387, 3388>>,
    <<3393, 3396>>, <<3405, 3405>>, <<3426, 3427>>, <<3457, 3457>>,
    <<3530, 3530>>, <<3538, 3540>>, <<3542, 3542>>, <<3633, 3633>>,
    <<3636, 3642>>, <<3654, 3662>>, <<3761, 3761>>, <<3764, 3772>>,
    <<3782, 3782>>, <<3784, 3789>>, <<3864, 3865>>, <<3893, 3893>>,
    <<3895, 3895>>, <<3897, 3897>>, <<3953, 3966>>, <<3968, 3972>>,
    <<3974, 3975>>, <<3981, 3991>>, <<3993, 4028>>, <<4038, 4038>>,
    <<4141, 4144>>, <<4146, 4151>>, <<4153, 4154>>, <<4157, 4158>>,
    <<4184, 4185>>, <<4190, 4192>>, <<4209, 4212>>, <<4226, 4226>>,
    <<4229, 4230>>, <<4237, 4237>>, <<4253, 4253>>, <<4348, 4348>>,
    <<4957, 4959>>, <<5906, 5908>>, <<5938, 5939>>, <<5970, 5971>>,
    <<6002, 6003>>, <<6068, 6069>>, <<6071, 6077>>, <<6086, 6086>>,
    <<6089, 6099>>, <<6103, 6103>>, <<6109, 6109>>, <<6155, 6159>>,
    <<6211, 6211>>, <<6277, 6278>>, <<6313, 6313>>, <<6432, 6434>>,
    <<6439, 6440>>, <<6450, 6450>>, <<6457, 6459>>, <<6679, 6680>>,
    <<6683, 6683>>, <<6742, 6742>>, <<6744, 6750>>, <<6752, 6752>>,
    <<6754, 6754>>, <<6757, 6764>>, <<6771, 6780>>, <<6783, 6783>>,
    <<6823, 6823>>, <<6832, 6862>>, <<6912, 6915>>, <<6964, 6964>>,
    <<6966, 6970>>, <<6972, 6972>>, <<6978, 6978>>, <<7019, 7027>>,
    <<7040, 7041>>, <<7074, 7077>>, <<7080, 7081>>, <<7083, 7085>>,
    <<7142, 7142>>, <<7144, 7145>>, <<7149, 7149>>, <<7151, 7153>>,
    <<7212, 7219>>, <<7222, 7223>>, <<7288, 7293>>, <<7376, 7378>>,
    <<7380, 7392>>, <<7394, 7400>>, <<7405, 7405>>, <<7412, 7412>>,
    <<7416, 7417>>, <<7468, 7530>>, <<7544, 7544>>, <<7579, 7679>>,
    <<8125, 8125>>, <<8127, 8129>>, <<8141, 8143>>, <<8157, 8159>>,
    <<8173, 8175>>, <<8189, 8190>>, <<8203, 8207>>, <<8216, 8217>>,
    <<8228, 8228>>, <<8231, 8231>>, <<8234, 8238>>, <<8288, 8292>>,
    <<8294, 8303>>, <<8305, 8305>>, <<8319, 8319>>, <<8336, 8348>>,
    <<8400, 8432>>, <<11388, 11389>>, <<11503, 11505>>, <<11631, 11631>>,
    <<11647, 11647>>, <<11744, 11775>>, <<11823, 11823>>, <<12293, 12293>>,
    <<12330, 12333>>, <<12337, 12341>>, <<12347, 12347>>, <<12441, 12446>>,
    <<12540, 12542>>, <<40981, 40981>>, <<42232, 42237>>, <<42508, 42508>>,
    <<42607, 42610>>, <<42612, 42621>>, <<42623, 42623>>, <<42652, 42655>>,
    <<42736, 42737>>, <<42752, 42785>>, <<42864, 42864>>, <<42888, 42890>>,
    <<42994, 42996>>, <<43000, 43001>>, <<43010, 43010>>, <<43014, 43014>>,
    <<43019, 43019>>, <<43045, 43046>>, <<43052, 43052>>, <<43204, 43205>>,
    <<43232, 43249>>, <<43263, 43263>>, <<43302, 43309>>, <<43335, 43345>>,
    <<43392, 43394>>, <<43443, 43443>>, <<43446, 43449>>, <<43452, 43453>>,
    <<43471, 43471>>, <<43493, 43494>>, <<43561, 43566>>, <<43569, 43570>>,
    <<43573, 43574>>, <<43587, 43587>>, <<43596, 43596>>, <<43632, 43632>>,
    <<43644, 43644>>, <<43696, 43696>>, <<43698, 43700>>, <<43703, 43704>>,
    <<43710, 43711>>, <<43713, 43713>>, <<43741, 43741>>, <<43756, 43757>>,
    <<43763, 43764>>, <<43766, 43766>>, <<43867, 43871>>, <<43881, 43883>>,
    <<44005, 44005>>, <<44008, 44008>>, <<44013, 44013>>, <<64286, 64286>>,
    <<64434, 64450>>, <<65024, 65039>>, <<65043, 65043>>, <<65056, 65071>>,
    <<65106, 65106>>, <<65109, 65109>>, <<65279, 65279>>, <<65287, 65287>>,
    <<65294, 65294>>, <<65306, 65306>>, <<65342, 65342>>, <<65344, 65344>>,
    <<65392, 65392>>, <<65438, 65439>>, <<65507, 65507>>, <<65529, 65531>>,
    <<66045, 66045>>, <<66272, 66272>>, <<66422, 66426>>, <<67456, 67461>>,
    <<67463, 67504>>, <<67506, 67514>>, <<68097, 68099>>, <<68101, 68102>>,
    <<68108, 68111>>, <<68152, 68154>>, <<68159, 68159>>, <<68325, 68326>>,
    <<68900, 68903>>, <<69291, 69292>>, <<69446, 69456>>, <<69506, 69509>>,
    <<69633, 69633>>, <<69688, 69702>>, <<69744, 69744>>, <<69747, 69748>>,
    <<69759, 69761>>, <<69811, 69814>>, <<69817, 69818>>, <<69821, 69821>>,
    <<69826, 69826>>, <<69837, 69837>>, <<69888, 69890>>, <<69927, 69931>>,
    <<69933, 69940>>, <<70003, 70003>>, <<70016, 70017>>, <<70070, 70078>>,
    <<70089, 70092>>, <<70095, 70095>>, <<70191, 70193>>, <<70196, 70196>>,
    <<70198, 70199>>, <<70206, 70206>>, <<70367, 70367>>, <<70371, 70378>>,
    <<70400, 70401>>, <<70459, 70460>>, <<70464, 70464>>, <<70502, 70508>>,
    <<70512, 70516>>, <<70712, 70719>>, <<70722, 70724>>, <<70726, 70726>>,
    <<70750, 70750>>, <<70835, 70840>>, <<70842, 70842>>, <<70847, 70848>>,
    <<70850, 70851>>, <<71090, 71093>>, <<71100, 71101>>, <<71103, 71104>>,
    <<71132, 71133>>, <<71219, 71226>>, <<71229, 71229>>, <<71231, 71232>>,
    <<71339, 71339>>, <<71341, 71341>>, <<71344, 71349>>, <<71351, 71351>>,
    <<71453, 71455>>, <<71458, 71461>>, <<71463, 71467>>, <<71727, 71735>>,
    <<71737, 71738>>, <<71995, 71996>>, <<71998, 71998>>, <<72003, 72003>>,
    <<72148, 72151>>, <<72154, 72155>>, <<72160, 72160>>, <<72193, 72202>>,
    <<72243, 72248>>, <<72251, 72254>>, <<72263, 72263>>, <<72273, 72278>>,
    <<72281, 72283>>, <<72330, 72342>>, <<72344, 72345>>, <<72752, 72758>>,
    <<72760, 72765>>, <<72767, 72767>>, <<72850, 72871>>, <<72874, 72880>>,
    <<72882, 72883>>, <<72885, 72886>>, <<73009, 73014>>, <<73018, 73018>>,
    <<73020, 73021>>, <<73023, 73029>>, <<73031, 73031>>, <<73104, 73105>>,
    <<73109, 73109>>, <<73111, 73111>>, <<73459, 73460>>, <<78896, 78904>>,
    <<92912, 92916>>, <<92976, 92982>>, <<92992, 92995>>, <<94031, 94031>>,
    <<94095, 94111>>, <<94176, 94177>>, <<94179, 94180>>, <<110576, 110579>>,
    <<110581, 110587>>, <<110589, 110590>>, <<113821, 113822>>,
    <<113824, 113827>>, <<118528, 118573>>, <<118576, 118598>>,
    <<119143, 119145>>, <<119155, 119170>>, <<119173, 119179>>,
    <<119210, 119213>>, <<119362, 119364>>, <<121344, 121398>>,
    <<121403, 121452>>, <<121461, 121461>>, <<121476, 121476>>,
    <<121499, 121503>>, <<121505, 121519>>, <<122880, 122886>>,
    <<122888, 122904>>, <<122907, 122913>>, <<122915, 122916>>,
    <<122918, 122922>>, <<123184, 123197>>, <<123566, 123566>>,
    <<123628, 123631>>, <<125136, 125142>>, <<125252, 125259>>,
    <<127995, 127999>>, <<917505, 917505>>, <<917536, 917631>>,
    <<917760, 917999>> }

\* <<first, last>>: the decimal digits, category Nd
DecimalRanges ==
  { <<48, 57>>, <<1632, 1641>>, <<1776, 1785>>, <<1984, 1993>>,
    <<2406, 2415>>, <<2534, 2543>>, <<2662, 2671>>, <<2790, 2799>>,
    <<2918, 2927>>, <<3046, 3055>>, <<3174, 3183>>, <<3302, 3311>>,
    <<3430, 3439>>, <<3558, 3567>>, <<3664, 3673>>, <<3792, 3801>>,
    <<3872, 3881>>, <<4160, 4169>>, <<4240, 4249>>, <<6112, 6121>>,
    <<6160, 6169>>, <<6470, 6479>>, <<6608, 6617>>, <<6784, 6793>>,
    <<6800, 6809>>, <<6992, 7001>>, <<7088, 7097>>, <<7232, 7241>>,
    <<7248, 7257>>, <<42528, 42537>>, <<43216, 43225>>, <<43264, 43273>>,
    <<43472, 43481>>, <<43504, 43513>>, <<43600, 43609>>, <<44016, 44025>>,
    <<65296, 65305>>, <<66720, 66729>>, <<68912, 68921>>, <<69734, 69743>>,
    <<69872, 69881>>, <<69942, 69951>>, <<70096, 70105>>, <<70384, 70393>>,
    <<70736, 70745>>, <<70864, 70873>>, <<71248, 71257>>, <<71360, 71369>>,
    <<71472, 71481>>, <<71904, 71913>>, <<72016, 72025>>, <<72784, 72793>>,
    <<73040, 73049>>, <<73120, 73129>>, <<92768, 92777>>, <<92864, 92873>>,
    <<93008, 93017>>, <<120782, 120831>>, <<123200, 123209>>,
    <<123632, 123641>>, <<125264, 125273>>, <<130032, 130041>> }

\* is c one of the characters of the rows
InRows(c, rows) ==
  \E r \in rows : r[1] <= c /\ c <= r[2] /\ (Len(r) < 3 \/ (c - r[1]) % r[3] = 0)

IsCased(c) == InRows(c, CasedRanges)

IsCaseIgnorable(c) == InRows(c, CaseIgnorableRanges)

(***************************************************************************)
(* The character classes of re, for a str pattern.                         *)
(***************************************************************************)
\* [A-Za-z] under re.IGNORECASE: the letters and the four characters that
\* fold to one of them, U+0130, U+0131 (to i), U+017F (to s), U+212A (to k)
Letters == (65..90) \cup (97..122) \cup {304, 305, 383, 8490}
\* \d: the decimal digits of Unicode
Digits == UNION {(r[1])..(r[2]) : r \in DecimalRanges}
\* \s, which is also the white space of str.strip and str.split:
\* U+0009 to U+000D, U+001C to U+0020, U+0085, U+00A0, U+1680,
\* U+2000 to U+200A, U+2028, U+2029, U+202F, U+205F and U+3000
Spaces ==
  (9..13) \cup (28..32) \cup {133, 160, 5760} \cup (8192..8202)
    \cup {8232, 8233, 8239, 8287, 12288}

\* what re.IGNORECASE makes of a character of the text before it is compared
\* with a lower-case letter of the pattern
FoldCh(c) ==
  IF c \in 65..90 THEN c + 32
  ELSE IF c \in {304, 305} THEN 105
  ELSE IF c = 383 THEN 115
  ELSE IF c = 8490 THEN 107
  ELSE c

\* the comma of a date, which date.split(",") splits at
Comma == Ord(",")

(***************************************************************************)
(* str.lower.                                                              *)
(***************************************************************************)
\* the lower case of one character; U+0130 alone gives two
LowerCh(c) ==
  IF c = 304 THEN <<105, 775>>
  ELSE IF InRows(c, LowerRanges)
    THEN <<c + (CHOOSE r \in LowerRanges : InRows(c, {r}))[4]>>
  ELSE <<c>>

\* the capital sigma at index i ends a word: the nearest character before it
\* that is not case-ignorable is cased, the nearest one after it is not
final_sigma(s, before, after) ==
  /\ before # {}
  /\ IsCased(s[Max(before)])
  /\ after = {} \/ ~IsCased(s[Min(after)])

\* the characters lo..hi of s, each one replaced by Op of its index; the
\* halves are joined, which keeps the evaluation shallow
RECURSIVE MapChars(_, _, _, _)
MapChars(Op(_, _), s, lo, hi) ==
  IF lo > hi THEN <<>>
  ELSE IF lo = hi THEN Op(s, lo)
  ELSE LET mid == (lo + hi) \div 2
       IN MapChars(Op, s, lo, mid) \o MapChars(Op, s, mid + 1, hi)

\* U+03A3 is the capital sigma, U+03C2 the final small sigma
LowerAt(s, i) ==
  IF s[i] = 931
       /\ final_sigma(s, {j \in 1..(i - 1) : ~IsCaseIgnorable(s[j])},
                         {j \in (i + 1)..Len(s) : ~IsCaseIgnorable(s[j])})
    THEN <<962>>
    ELSE LowerCh(s[i])

\* s.lower()
LowerStr(s) == MapChars(LowerAt, s, 1, Len(s))

\* the index after the longest run of characters of class cls that starts at i
RunEnd(s, i, cls) ==
  IF i > Len(s) THEN i
  ELSE Min({k \in i..(Len(s) + 1) : k = Len(s) + 1 \/ Ch(s, k) \notin cls})

\* does the literal lit (lower case) stand at index i of s, ignoring case
LitAtI(s, i, lit) ==
  /\ i >= 1
  /\ i + Len(lit) - 1 <= Len(s)
  /\ \A k \in 1..Len(lit) : FoldCh(Ch(s, i + k - 1)) = lit[k]

\* does the literal lit stand at index i of s, case kept
LitAt(s, i, lit) ==
  /\ i >= 1
  /\ i + Len(lit) - 1 <= Len(s)
  /\ SubSeq(s, i, i + Len(lit) - 1) = lit

(***************************************************************************)
(* clean_text, lines 43-55.                                                *)
(***************************************************************************)
\* char if char in string.printable else " "
AsciiAt(text, i) == IF Ch(text, i) \in Printable THEN <<Ch(text, i)>> ELSE <<32>>

only_ascii(text) == MapChars(AsciiAt, text, 1, Len(text))

\* re.sub(" +", " ", s): of every run of spaces the first one stays
SpaceAt(s, i) ==
  IF Ch(s, i) = 32 /\ i > 1 /\ Ch(s, i - 1) = 32 THEN <<>> ELSE <<Ch(s, i)>>

no_dup_spaces(s) == MapChars(SpaceAt, s, 1, Len(s))

\* re.sub("\n+", "\n", s)
NewlineAt(s, i) ==
  IF Ch(s, i) = 10 /\ i > 1 /\ Ch(s, i - 1) = 10 THEN <<>> ELSE <<Ch(s, i)>>

no_dup_newlines(s) == MapChars(NewlineAt, s, 1, Len(s))

clean_text(text) == no_dup_newlines(no_dup_spaces(only_ascii(text)))

(***************************************************************************)
(* The page source.  A page is what wikipedia.search and WikipediaPage     *)
(* give for a title: search results or none, an infobox or none, and the   *)
(* text of the first infobox.                                              *)
(***************************************************************************)
Page(results, infobox, text) ==
  [results |-> results, infobox |-> infobox, text |-> text]

\* get_page_html, get_first_infobox_text and clean_text, as every extractor
\* chains them: results[0] of no results is an IndexError, a page with no
\* infobox a LookupError
infobox_text(pg) ==
  IF ~pg.results THEN RaiseS("IndexError")
  ELSE IF ~pg.infobox THEN RaiseS("LookupError")
  ELSE RetS(clean_text(pg.text))

(***************************************************************************)
(* The regular expressions of the extractors.  A span is <<first, last>>,  *)
(* the indexes of a group; <<>> is no match.                               *)
(***************************************************************************)
\* DATE is [A-Za-z]+\s+\d{1,2},\s+\d{4}.  The classes that follow one another
\* are disjoint, so each run is the longest one.  DateEnd(s, i) is the index
\* after the DATE that starts at i, or 0.
\* \s+\d{4}: the spaces (c+1)..(d-1) after the comma at c, four digits from d
DateYear(s, c, d) ==
  IF d > c + 1 /\ d + 3 <= Len(s) /\ \A k \in d..(d + 3) : Ch(s, k) \in Digits
    THEN d + 4
    ELSE 0

\* \d{1,2},: the digits b..(c-1), one or two of them, and the comma at c
DateDay(s, b, c) ==
  IF c - b \in {1, 2} /\ c <= Len(s) /\ Ch(s, c) = Comma
    THEN DateYear(s, c, RunEnd(s, c + 1, Spaces))
    ELSE 0

\* \s+: the spaces a..(b-1)
DateGap(s, a, b) == IF b > a THEN DateDay(s, b, RunEnd(s, b, Digits)) ELSE 0

\* [A-Za-z]+: the letters i..(a-1)
DateMonth(s, i, a) == IF a > i THEN DateGap(s, a, RunEnd(s, a, Spaces)) ELSE 0

DateEnd(s, i) == DateMonth(s, i, RunEnd(s, i, Letters))

\* the span from g to the index before e, no span for e = 0
SpanOrNone(g, e) == IF e = 0 THEN <<>> ELSE <<g, e - 1>>

\* of the candidates <<index, span>> with a span, the span of the greatest
\* index, which is what a greedy e+ settles on
Greedy(cands) ==
  IF \A c \in cands : c[2] = <<>> THEN <<>>
  ELSE (CHOOSE c \in cands :
          c[2] # <<>> /\ \A o \in cands : o[2] # <<>> => o[1] <= c[1])[2]

\* and the span of the least index, which is what search settles on
Leftmost(cands) ==
  IF \A c \in cands : c[2] = <<>> THEN <<>>
  ELSE (CHOOSE c \in cands :
          c[2] # <<>> /\ \A o \in cands : o[2] # <<>> => c[1] <= o[1])[2]

InOfficeLit == Str("president of the united statesin offic")
AssumedLit == Str("incumbentassumed office")
\* e, ignoring case
LetterE == {Ord("e"), Ord("E")}

\* "President of the United StatesIn office+(?P<officestart>DATE)" at index
\* i: the span of officestart.  e+ takes the run of e from j on and gives
\* back one e at a time, so the group starts at the greatest g that lets
\* DATE match.
StartPrimaryAt(s, i) ==
  IF LitAtI(s, i, InOfficeLit)
    THEN Greedy({<<g, SpanOrNone(g, DateEnd(s, g))>> :
                   g \in (i + Len(InOfficeLit) + 1)..
                           RunEnd(s, i + Len(InOfficeLit), LetterE)})
    ELSE <<>>

\* \s+(?P<officeend>DATE), after a first DATE that ends before e1
EndAfterGap(s, e1, h) == IF h > e1 THEN SpanOrNone(h, DateEnd(s, h)) ELSE <<>>

EndAfterFirst(s, e1) ==
  IF e1 = 0 THEN <<>> ELSE EndAfterGap(s, e1, RunEnd(s, e1, Spaces))

\* "...In office+(DATE)\s+(?P<officeend>DATE)" at index i: the span of
\* officeend
EndPrimaryAt(s, i) ==
  IF LitAtI(s, i, InOfficeLit)
    THEN Greedy({<<g, EndAfterFirst(s, DateEnd(s, g))>> :
                   g \in (i + Len(InOfficeLit) + 1)..
                           RunEnd(s, i + Len(InOfficeLit), LetterE)})
    ELSE <<>>

\* \s+(?P<officestart>DATE): the spaces j..(g-1)
AssumedGap(s, j, g) == IF g > j THEN SpanOrNone(g, DateEnd(s, g)) ELSE <<>>

\* "IncumbentAssumed office\s+(?P<officestart>DATE)" at index i
AssumedAt(s, i) ==
  IF LitAtI(s, i, AssumedLit)
    THEN AssumedGap(s, i + Len(AssumedLit),
                    RunEnd(s, i + Len(AssumedLit), Spaces))
    ELSE <<>>

\* the three patterns, by name
PatternAt(pattern, s, i) ==
  CASE pattern = "start_primary" -> StartPrimaryAt(s, i)
    [] pattern = "end_primary" -> EndPrimaryAt(s, i)
    [] pattern = "assumed" -> AssumedAt(s, i)

\* lines 76-78: no match is an AttributeError
match_or_raise(text, span) ==
  IF span = <<>> THEN RaiseS("AttributeError")
  ELSE RetS(SubSeq(text, span[1], span[2]))

\* get_match, lines 58-78: p.search gives the leftmost match.  The value is
\* the text of the pattern's named group.
get_match(text, pattern) ==
  match_or_raise(text,
    Leftmost({<<i, PatternAt(pattern, text, i)>> : i \in 1..Len(text)}))

(***************************************************************************)
(* The extractors, lines 206-241.  Each takes the page its name resolves   *)
(* to.                                                                     *)
(***************************************************************************)
\* lines 213-216: the fallback, tried when the first pattern raised
start_fallback(text, first) ==
  IF first.kind = "return" THEN first ELSE get_match(text, "assumed")

start_in(t) ==
  IF t.kind = "raise" THEN t
  ELSE start_fallback(t.value, get_match(t.value, "start_primary"))

get_incumbency_start(pg) == start_in(infobox_text(pg))

CurrentIncumbent == Str("Current incumbent")

\* lines 229-231: the group is read and dropped
current_incumbent(second) ==
  IF second.kind = "return" THEN RetS(CurrentIncumbent) ELSE second

\* a slip: the layout of the incumbent is tried first
end_fallback_incumbent_first(text, first) ==
  IF get_match(text, "assumed").kind = "return" THEN RetS(CurrentIncumbent)
  ELSE first

\* lines 227-231
end_fallback(text, first) ==
  IF first.kind = "return" THEN first
  ELSE current_incumbent(get_match(text, "assumed"))

end_in(t) ==
  IF t.kind = "raise" THEN t
  ELSE end_fallback(t.value, get_match(t.value, "end_primary"))

get_incumbency_end(pg) == end_in(infobox_text(pg))

OrdinalSuffixes == {Str("st"), Str("nd"), Str("rd"), Str("th")}
PotusLit == Str(" President of the United States")
AmpLit == Str(" & ")

\* \d+(?:st|nd|rd|th)\b President of the United States: the digits
\* (p+5)..(q-1) after " & "
SecondOrdinal(s, p, q) ==
  /\ q > p + 5
  /\ q + 1 <= Len(s)
  /\ SubSeq(s, q, q + 1) \in OrdinalSuffixes
  /\ LitAt(s, q + 2, PotusLit)

\* the lookahead of get_number's pattern at index p, the index after the two
\* digits: (?:st|nd|rd|th)\b(?: & \b\d+(?:st|nd|rd|th)\b)? President of the
\* United States.  Each \b stands between a word character and the space the
\* pattern asks for next, or between that space and a digit, so it holds
\* wherever the rest matches.
OrdinalAhead(s, p) ==
  /\ p + 1 <= Len(s)
  /\ SubSeq(s, p, p + 1) \in OrdinalSuffixes
  /\ \/ LitAt(s, p + 2, AmpLit) /\ SecondOrdinal(s, p, RunEnd(s, p + 5, Digits))
     \/ LitAt(s, p + 2, PotusLit)

\* (\d{2})(?=...) at index i
NumberAt(s, i) ==
  /\ i + 1 <= Len(s)
  /\ Ch(s, i) \in Digits
  /\ Ch(s, i + 1) \in Digits
  /\ OrdinalAhead(s, i + 2)

\* re.findall of (\d{2})(?=...): the matches from index i on, left to right,
\* none overlapping: the search goes on after the two digits of a match.
\* Case is kept, no flag is given.
RECURSIVE findall_number(_, _)
findall_from(s, hits) ==
  IF hits = {} THEN <<>>
  ELSE <<SubSeq(s, Min(hits), Min(hits) + 1)>> \o findall_number(s, Min(hits) + 2)

findall_number(s, i) == findall_from(s, {k \in i..Len(s) : NumberAt(s, k)})

\* lines 239-241
matches_or_raise(matches) ==
  IF matches = <<>> THEN RaiseL("AttributeError") ELSE RetL(matches)

number_in(t) ==
  IF t.kind = "raise" THEN RaiseL(t.exc)
  ELSE matches_or_raise(findall_number(t.value, 1))

get_number(pg) == number_in(infobox_text(pg))

(***************************************************************************)
(* str.join, str.split and str.strip.                                      *)
(***************************************************************************)
\* " ".join(matches)
RECURSIVE Join(_)
Join(matches) ==
  IF matches = <<>> THEN <<>>
  ELSE IF Len(matches) = 1 THEN matches[1]
  ELSE matches[1] \o <<32>> \o Join(Tail(matches))

\* s.split(sep), sep one character
RECURSIVE Split(_, _)
split_at(s, sep, at) ==
  IF at = {} THEN <<s>>
  ELSE <<SubSeq(s, 1, Min(at) - 1)>> \o Split(SubSeq(s, Min(at) + 1, Len(s)), sep)

Split(s, sep) == split_at(s, sep, {i \in 1..Len(s) : Ch(s, i) = sep})

\* s.strip()
RECURSIVE Strip(_)
Strip(s) ==
  IF s = <<>> THEN <<>>
  ELSE IF Ch(s, 1) \in Spaces THEN Strip(SubSeq(s, 2, Len(s)))
  ELSE IF Ch(s, Len(s)) \in Spaces THEN Strip(SubSeq(s, 1, Len(s) - 1))
  ELSE s

(***************************************************************************)
(* The handlers, lines 133-191 and 246-247.  Each takes the list of        *)
(* matched tokens and the page that " ".join(matches) resolves to.         *)
(***************************************************************************)
\* [x]: the answer of an extractor as a list
listed(d) == IF d.kind = "raise" THEN RaiseL(d.exc) ELSE RetL(<<d.value>>)

NoAnswers == Str("No answers")

\* parts[1].strip(), an IndexError for a date with no comma
second_part(parts) ==
  IF Len(parts) < 2 THEN RaiseL("IndexError") ELSE RetL(<<Strip(parts[2])>>)

\* [date.split(",")[1].strip() if date else "No answers"], lines 154 and 177
year_of(d) ==
  IF d.kind = "raise" THEN RaiseL(d.exc)
  ELSE IF d.value = <<>> THEN RetL(<<NoAnswers>>)
  ELSE second_part(Split(d.value, Comma))

incumbency_start(matches, pg) == listed(get_incumbency_start(pg))

incumbency_start_year(matches, pg) == year_of(get_incumbency_start(pg))

incumbency_end(matches, pg) == listed(get_incumbency_end(pg))

incumbency_end_year(matches, pg) == year_of(get_incumbency_end(pg))

\* a slip: the join starts at three matches
joined_from_three(results) ==
  IF results.kind = "raise" THEN results
  ELSE IF Len(results.value) > 2
    THEN RetL(<<results.value[1] \o AmpLit \o results.value[2]>>)
  ELSE results

\* lines 189-191
joined(results) ==
  IF results.kind = "raise" THEN results
  ELSE IF Len(results.value) > 1
    THEN RetL(<<results.value[1] \o AmpLit \o results.value[2]>>)
  ELSE results

number(matches, pg) == joined(get_number(pg))

bye_action(dummy, pg) == RaiseL("KeyboardInterrupt")

(***************************************************************************)
(* str.replace and str.split, as query_loop and pa_list use them.          *)
(***************************************************************************)
\* s.replace("?", "")
QuestionAt(s, i) == IF Ch(s, i) = Ord("?") THEN <<>> ELSE <<Ch(s, i)>>

strip_question(s) == MapChars(QuestionAt, s, 1, Len(s))

\* s.split(): the runs of characters that are not whitespace
RECURSIVE SplitWs(_)
split_token(s, e) == <<SubSeq(s, 1, e - 1)>> \o SplitWs(SubSeq(s, e, Len(s)))

SplitWs(s) ==
  IF s = <<>> THEN <<>>
  ELSE IF Ch(s, 1) \in Spaces THEN SplitWs(SubSeq(s, 2, Len(s)))
  ELSE split_token(s, RunEnd(s, 1, Nat \ Spaces))

\* input("Your query? ").replace("?", "").lower().split(), line 310
Tokenize(line) == SplitWs(LowerStr(strip_question(line)))

(***************************************************************************)
(* match, of match.py.  The value is a record: none is TRUE for Python's   *)
(* None, tokens holds the list otherwise.                                  *)
(***************************************************************************)
None == [none |-> TRUE, tokens |-> <<>>]
\* the token that stands for any run of tokens
Wildcard == Str("%")
Matched(tokens) == [none |-> FALSE, tokens |-> tokens]

RECURSIVE match(_, _)

\* the wildcard takes the first k tokens of source, rest is the match of what
\* follows it
wildcard_take(source, k, rest) == Matched(SubSeq(source, 1, k) \o rest.tokens)

\* the wildcard takes the shortest run of tokens that lets the rest of the
\* pattern match the rest of the source
wildcard(pattern, source, fits) ==
  IF fits = {} THEN None
  ELSE wildcard_take(source, Min(fits),
         match(Tail(pattern), SubSeq(source, Min(fits) + 1, Len(source))))

match(pattern, source) ==
  IF pattern = <<>>
    THEN (IF source = <<>> THEN Matched(<<>>) ELSE None)
  ELSE IF Head(pattern) = Wildcard
    THEN wildcard(pattern, source,
           {k \in 0..Len(source) :
              ~match(Tail(pattern), SubSeq(source, k + 1, Len(source))).none})
  ELSE IF source = <<>> \/ Head(source) # Head(pattern) THEN None
  ELSE match(Tail(pattern), Tail(source))

(***************************************************************************)
(* pa_list, lines 257-274.                                                 *)
(***************************************************************************)
Entry(pat, act) == [pat |-> SplitWs(Str(pat)), act |-> act]

pa_list ==
  << Entry("when did % take office", "incumbency_start"),
     Entry("when did % become president", "incumbency_start"),
     Entry("what year did % take office", "incumbency_start_year"),
     Entry("what year did % become president", "incumbency_start_year"),
     Entry("when did % begin his presidency", "incumbency_start"),
     Entry("what year did % begin his presidency", "incumbency_start_year"),
     Entry("when did % leave office", "incumbency_end"),
     Entry("when did % end his presidency", "incumbency_end"),
     Entry("what year did % leave office", "incumbency_end_year"),
     Entry("when year did % end his presidency", "incumbency_end_year"),
     Entry("what number president is %", "number"),
     Entry("what number president was %", "number"),
     Entry("which number president is %", "number"),
     Entry("which number president was %", "number"),
     [pat |-> <<Str("bye")>>, act |-> "bye_action"] >>

\* act(matches), for the action named act
Act(act, matches, pg) ==
  CASE act = "incumbency_start" -> incumbency_start(matches, pg)
    [] act = "incumbency_start_year" -> incumbency_start_year(matches, pg)
    [] act = "incumbency_end" -> incumbency_end(matches, pg)
    [] act = "incumbency_end_year" -> incumbency_end_year(matches, pg)
    [] act = "number" -> number(matches, pg)
    [] act = "bye_action" -> bye_action(matches, pg)

(***************************************************************************)
(* search_pa_list, lines 277-300.  The value says what the call did: its   *)
(* outcome, the entry it stopped at, the match there, the path it took,    *)
(* the handler calls it made and previous_name as the call leaves it.      *)
(* The field was is filled in by the caller.                               *)
(***************************************************************************)
\* the test of line 292, which Python reads as
\*   (mat is not None and "he" in mat) or ("they" in mat and previous_name is not None)
\* "they" in mat is a TypeError when mat is None
pronoun_test(mat, prev) ==
  IF ~mat.none /\ Str("he") \in Range(mat.tokens) THEN "True"
  ELSE IF mat.none THEN "TypeError"
  ELSE IF Str("they") \in Range(mat.tokens) /\ prev \in Seq(Nat) THEN "True"
  ELSE "False"

\* answer if answer else ["No answers"], lines 294 and 298
or_no_answers(answer) ==
  IF answer.value # <<>> THEN answer ELSE RetL(<<NoAnswers>>)

Did(src, out, entry, mat, path, handler, calls, prev) ==
  [src |-> src, kind |-> out.kind, value |-> out.value, exc |-> out.exc,
   entry |-> entry, mat |-> mat, path |-> path, handler |-> handler,
   calls |-> calls, prev |-> prev, was |-> <<>>]

\* line 294, after the handler of entry i got [previous_name]: previous_name
\* stays
pronoun_done(i, src, mat, prev, answer) ==
  Did(src, IF answer.kind = "raise" THEN answer ELSE or_no_answers(answer),
      i, mat, "pronoun", IF answer.kind = "raise" THEN "raised" ELSE "returned",
      <<[entry |-> i, act |-> pa_list[i].act, args |-> <<prev>>]>>, prev)

\* lines 293-294
pronoun_path(i, src, mat, prev, pg) ==
  pronoun_done(i, src, mat, prev, Act(pa_list[i].act, <<prev>>, pg))

\* a slip: previous_name = mat[0] stands before the call of the handler, so
\* it is kept when the handler raises
literal_done_early(i, src, mat, prev, answer) ==
  Did(src,
      IF mat.tokens = <<>> THEN RaiseL("IndexError")
      ELSE IF answer.kind = "raise" THEN answer
      ELSE or_no_answers(answer),
      i, mat, "literal",
      IF mat.tokens = <<>> THEN "none"
      ELSE IF answer.kind = "raise" THEN "raised" ELSE "returned",
      IF mat.tokens = <<>> THEN <<>>
      ELSE <<[entry |-> i, act |-> pa_list[i].act, args |-> mat.tokens]>>,
      IF mat.tokens = <<>> THEN prev ELSE mat.tokens[1])

\* lines 297-298, after the handler of entry i got mat: previous_name = mat[0]
\* once the handler is back, an IndexError for an empty mat
literal_done(i, src, mat, prev, answer) ==
  Did(src,
      IF answer.kind = "raise" THEN answer
      ELSE IF mat.tokens = <<>> THEN RaiseL("IndexError")
      ELSE or_no_answers(answer),
      i, mat, "literal", IF answer.kind = "raise" THEN "raised" ELSE "returned",
      <<[entry |-> i, act |-> pa_list[i].act, args |-> mat.tokens]>>,
      IF answer.kind = "raise" \/ mat.tokens = <<>> THEN prev ELSE mat.tokens[1])

\* lines 296-298
literal_path(i, src, mat, prev, pg) ==
  literal_done(i, src, mat, prev, Act(pa_list[i].act, mat.tokens, pg))

DontUnderstand == Str("I don't understand")

\* the loop of line 290, from entry i on
RECURSIVE scan(_, _, _, _)

\* lines 292-298 for entry i, with the value of the test of line 292
branch(i, src, mat, prev, pg, test) ==
  IF test = "TypeError"
    THEN Did(src, RaiseL("TypeError"), i, mat, "none", "none", <<>>, prev)
  ELSE IF test = "True" THEN pronoun_path(i, src, mat, prev, pg)
  ELSE IF ~mat.none THEN literal_path(i, src, mat, prev, pg)
  ELSE scan(i + 1, src, prev, pg)

\* lines 291-298 for entry i, with the value of match(pat, src)
try_entry(i, src, mat, prev, pg) ==
  branch(i, src, mat, prev, pg, pronoun_test(mat, prev))

scan(i, src, prev, pg) ==
  IF i > Len(pa_list)
    THEN Did(src, RetL(<<DontUnderstand>>), 0, None, "none", "none", <<>>, prev)
  ELSE try_entry(i, src, match(pa_list[i].pat, src), prev, pg)

search_pa_list(src, prev, pg) == scan(1, src, prev, pg)

(***************************************************************************)
(* The inputs of a session: the lines typed at the prompt and the pages    *)
(* the page source gives.                                                  *)
(***************************************************************************)
NameTokens == {Str("abraham"), Str("lincoln"), Str("he"), Str("they")}

Captures == UNION {[1..n -> NameTokens] : n \in 0..MaxCapture}

\* the pattern with the tokens of capture in the place of its wildcard
RECURSIVE Fill(_, _)
Fill(pattern, capture) ==
  IF pattern = <<>> THEN <<>>
  ELSE IF Head(pattern) = Wildcard THEN capture \o Fill(Tail(pattern), capture)
  ELSE <<Head(pattern)>> \o Fill(Tail(pattern), capture)

\* the next to last line is split at a vertical tab (U+000B) and at an em
\* space (U+2003); the last one holds a backquote and capitals that
\* str.lower turns: E acute (U+00C9) and a capital sigma at the end of a
\* word (U+03A3)
Lines ==
  {Join(Fill(pa_list[i].pat, c)) : i \in 1..Len(pa_list), c \in Captures}
    \cup {Str(""), Str("Bye?"), Str("what is the weather"),
          Str("When did Abraham Lincoln take office?"), Str("he"),
          Str("when did they"),
          Str("When did") \o <<11>> \o Str("Abraham") \o <<8195>>
            \o Str("Lincoln take office"),
          Str("when did ") \o <<201, 96, 913, 931>> \o Str(" take office")}

TokensOf == [line \in Lines |-> Tokenize(line)]

\* the two dates stand on either side of an en dash, U+2013
LincolnText ==
  Str("16th President of the United StatesIn officeMarch 4, 1861 ")
    \o <<8211>> \o Str(" April 15, 1865\n\nVice President")

SessionPages ==
  {Page(FALSE, FALSE, <<>>), Page(TRUE, FALSE, <<>>), Page(TRUE, TRUE, LincolnText),
   Page(TRUE, TRUE, Str("Born1809-02-12"))}

(***************************************************************************)
(* The session: query_loop, lines 303-318.  The two calls of lines 328-334 *)
(* are the session of two lines with no loop around it.                    *)
(***************************************************************************)
NoCall ==
  Did(<<>>, [kind |-> "none", value |-> <<>>, exc |-> ""], 0, None, "none", "none",
      <<>>, <<>>)

NoDirectCall == [fn |-> "none", kind |-> "none", value |-> <<>>, exc |-> ""]

Init ==
  /\ previous_name = <<>>
  /\ pc = "awaiting"
  /\ last = NoCall
  /\ wiki = Page(FALSE, FALSE, <<>>)
  /\ called = NoDirectCall

\* the except clause of line 315 and what falls through it
after_call(exc) ==
  IF exc = "" THEN "awaiting"
  ELSE IF exc \in {"KeyboardInterrupt", "EOFError"} THEN "terminated"
  ELSE "crashed"

\* what a call of search_pa_list leaves behind; was is previous_name as the
\* call found it
finish(did) ==
  /\ last' = [did EXCEPT !.was = previous_name]
  /\ previous_name' = did.prev
  /\ pc' = after_call(did.exc)

\* one turn of the loop: a line is read, search_pa_list runs, the answers
\* are printed or the exception leaves the try block
query_loop_step ==
  /\ pc = "awaiting"
  /\ \E line \in Lines, pg \in SessionPages :
       finish(search_pa_list(TokensOf[line], previous_name, pg))
  /\ UNCHANGED <<wiki, called>>

\* input() raises: Ctrl-D is an EOFError, Ctrl-C a KeyboardInterrupt
input_closed ==
  /\ pc = "awaiting"
  /\ \E exc \in {"EOFError", "KeyboardInterrupt"} : pc' = after_call(exc)
  /\ UNCHANGED <<previous_name, last, wiki, called>>

Next == query_loop_step \/ input_closed

Spec == Init /\ [][Next]_vars

(***************************************************************************)
(* Direct calls: an extractor or a handler is called on the page its name  *)
(* resolves to.  The infobox texts are made of blocks as the summary box   *)
(* of a president lays them out: an office held and left, two terms under  *)
(* one heading, the office of the incumbent, an office with a start date   *)
(* only, and a field of no office.                                         *)
(***************************************************************************)
Blocks ==
  {Str("16th President of the United StatesIn officeMarch 4, 1861 ")
     \o <<8211>> \o Str(" April 15, 1865\n\n"),
   Str("22nd & 24th President of the United StatesIn officeMarch 4, 1893 March 4, 1897\n"),
   Str("47th President of the United StatesIncumbentAssumed office January 20, 2025\n"),
   Str("President of the United StatesIn officeMarch 4, 1861\n"),
   Str("Born1809-02-12\n")}

RECURSIVE Concat(_)
Concat(blocks) == IF blocks = <<>> THEN <<>> ELSE Head(blocks) \o Concat(Tail(blocks))

InfoboxTexts == {Concat(b) : b \in UNION {[1..n -> Blocks] : n \in 0..MaxBlocks}}

DirectPages ==
  {Page(FALSE, FALSE, <<>>), Page(TRUE, FALSE, <<>>)}
    \cup {Page(TRUE, TRUE, t) : t \in InfoboxTexts}

InitDirect ==
  /\ previous_name = <<>>
  /\ pc = "awaiting"
  /\ last = NoCall
  /\ wiki \in DirectPages
  /\ called = NoDirectCall

Called(fn, out) == [fn |-> fn, kind |-> out.kind, value |-> out.value, exc |-> out.exc]

call_get_incumbency_start ==
  /\ called' = Called("get_incumbency_start", get_incumbency_start(wiki))
  /\ UNCHANGED <<previous_name, pc, last, wiki>>

call_get_incumbency_end ==
  /\ called' = Called("get_incumbency_end", get_incumbency_end(wiki))
  /\ UNCHANGED <<previous_name, pc, last, wiki>>

call_get_number ==
  /\ called' = Called("get_number", get_number(wiki))
  /\ UNCHANGED <<previous_name, pc, last, wiki>>

\* a handler of pa_list, called with a list of matched tokens
call_handler ==
  /\ \E act \in {pa_list[i].act : i \in 1..Len(pa_list)} :
       called' = Called(act, Act(act, <<Str("abraham"), Str("lincoln")>>, wiki))
  /\ UNCHANGED <<previous_name, pc, last, wiki>>

NextDirect ==
  \/ call_get_incumbency_start
  \/ call_get_incumbency_end
  \/ call_get_number
  \/ call_handler

SpecDirect == InitDirect /\ [][NextDirect]_vars

(***************************************************************************)
(* What the claims speak of.                                               *)
(***************************************************************************)
Asked == last.kind # "none"

\* the entries of pa_list whose pattern matches src
MatchingEntries(src) == {i \in 1..Len(pa_list) : ~match(pa_list[i].pat, src).none}

Pronouns == {Str("he"), Str("they")}

HasPronoun(tokens) == Range(tokens) \cap Pronouns # {}

\* does sub stand somewhere in s
IsSubstring(sub, s) == \E i \in 1..(Len(s) + 1) : LitAt(s, i, sub)

\* the cleaned infobox text of the page under a direct call
WikiText == clean_text(wiki.text)

HasText == wiki.results /\ wiki.infobox

(***************************************************************************)
(* C1.  A query that matches no entry of pa_list gets exactly              *)
(* ["I don't understand"]: nothing is raised, no handler is called and     *)
(* previous_name stays as it was.                                          *)
(***************************************************************************)
C1_NoMatchIsNotUnderstood ==
  (Asked /\ MatchingEntries(last.src) = {}) =>
    /\ last.kind = "return"
    /\ last.value = <<DontUnderstand>>
    /\ last.calls = <<>>
    /\ previous_name = last.was

(***************************************************************************)
(* C2.  The query ["bye"] gives no answer list: the scan reaches the bye   *)
(* entry, bye_action raises KeyboardInterrupt, and query_loop catches it   *)
(* and ends the session; no other exception escapes.                       *)
(***************************************************************************)
C2_ByeEndsTheSession ==
  (Asked /\ last.src = <<Str("bye")>>) =>
    /\ last.kind = "raise"
    /\ last.exc = "KeyboardInterrupt"
    /\ Len(last.calls) = 1
    /\ last.calls[1].act = "bye_action"
    /\ pc = "terminated"

(***************************************************************************)
(* C3.  After a query answered on the literal path with a capture of two   *)
(* or more tokens, a query that fills a template with "he" calls that      *)
(* template's handler on the subject of the first query, the full name.    *)
(***************************************************************************)
HeQueries == {Fill(pa_list[i].pat, <<Str("he")>>) : i \in 1..(Len(pa_list) - 1)}

C3_Step ==
  ( /\ query_loop_step
    /\ last.kind = "return"
    /\ last.path = "literal"
    /\ Len(last.mat.tokens) >= 2
    /\ last'.src \in HeQueries )
  => ( /\ Len(last'.calls) = 1
       /\ Fill(pa_list[last'.calls[1].entry].pat, <<Str("he")>>) = last'.src
       /\ Join(last'.calls[1].args) = Join(last.mat.tokens) )

C3_PronounKeepsTheSubject == [][C3_Step]_vars

(***************************************************************************)
(* C4.  The handler gets [previous_name] only when the capture holds "he"  *)
(* or "they" and previous_name is not empty, and previous_name is then not *)
(* updated; a pronoun query asked while previous_name is still empty does  *)
(* not pass the empty string as the subject and does not raise.            *)
(***************************************************************************)
C4_PronounNeedsContext ==
  /\ (Asked /\ last.path = "pronoun") =>
       /\ HasPronoun(last.mat.tokens)
       /\ last.was # <<>>
       /\ previous_name = last.was
  /\ ( /\ Asked
       /\ last.was = <<>>
       /\ \E i \in MatchingEntries(last.src) :
            HasPronoun(match(pa_list[i].pat, last.src).tokens) ) =>
       /\ \A k \in 1..Len(last.calls) : last.calls[k].args # << <<>> >>
       /\ last.kind = "return"

(***************************************************************************)
(* C5.  A query that matches an entry of pa_list has exactly one handler   *)
(* called, that of the first matching entry, and gets that handler's list, *)
(* or ["No answers"] for an empty one; an empty list is never returned.    *)
(***************************************************************************)
C5_FirstMatchAnswers ==
  (Asked /\ MatchingEntries(last.src) # {}) =>
    /\ Len(last.calls) = 1
    /\ last.calls[1].entry = Min(MatchingEntries(last.src))
    /\ last.handler = "returned" => (last.kind = "return" /\ last.value # <<>>)

(***************************************************************************)
(* C6.  A match with an empty capture is a match: for a query that fills   *)
(* the wildcard of a template with no token and whose handler returns,     *)
(* search_pa_list returns the handler's answers; it neither raises nor     *)
(* returns ["I don't understand"].                                         *)
(***************************************************************************)
EmptyCaptureQueries == {Fill(pa_list[i].pat, <<>>) : i \in 1..(Len(pa_list) - 1)}

C6_EmptyCaptureIsAMatch ==
  (Asked /\ last.src \in EmptyCaptureQueries /\ last.handler = "returned") =>
    /\ last.kind = "return"
    /\ last.value # <<DontUnderstand>>
    /\ last.value # <<>>

(***************************************************************************)
(* C7.  The year handlers return a list of one string for every value the  *)
(* extractor returns: the year of a date, trimmed, and a list as well, no  *)
(* exception, for the end extractor's "Current incumbent".                 *)
(***************************************************************************)
C7_YearHandlersReturnLists ==
  /\ (called.fn = "incumbency_start_year" /\ get_incumbency_start(wiki).kind = "return")
       => (called.kind = "return" /\ Len(called.value) = 1)
  /\ (called.fn = "incumbency_end_year" /\ get_incumbency_end(wiki).kind = "return")
       => (called.kind = "return" /\ Len(called.value) = 1)

(***************************************************************************)
(* C8, as claimed.  number returns the one match unchanged, the two        *)
(* matches joined by " & ", and for any number of matches a result that    *)
(* holds every ordinal get_number found.                                   *)
(***************************************************************************)
C8_EveryOrdinalKept ==
  (called.fn = "number" /\ called.kind = "return") =>
    /\ Len(get_number(wiki).value) = 1 => called.value = get_number(wiki).value
    /\ Len(get_number(wiki).value) = 2 =>
         called.value = <<get_number(wiki).value[1] \o AmpLit \o get_number(wiki).value[2]>>
    /\ \A k \in 1..Len(get_number(wiki).value) :
         \E j \in 1..Len(called.value) :
           IsSubstring(get_number(wiki).value[k], called.value[j])

(***************************************************************************)
(* C8, amended.  number returns the one match unchanged, and for two or    *)
(* more matches a list of one string, the first two matches joined by      *)
(* " & "; it raises what get_number raises.                                *)
(***************************************************************************)
C8_FirstTwoJoined ==
  called.fn = "number" =>
    IF get_number(wiki).kind = "raise"
      THEN called.kind = "raise" /\ called.exc = get_number(wiki).exc
    ELSE IF Len(get_number(wiki).value) = 1
      THEN called.kind = "return" /\ called.value = get_number(wiki).value
    ELSE /\ called.kind = "return"
         /\ called.value =
              <<get_number(wiki).value[1] \o AmpLit \o get_number(wiki).value[2]>>

\* number has answered for a page with three ordinals or more
C8_Witness ==
  /\ called.fn = "number"
  /\ called.kind = "return"
  /\ Len(get_number(wiki).value) >= 3
  /\ ~IsSubstring(get_number(wiki).value[3], called.value[1])

(***************************************************************************)
(* C9.  get_incumbency_end returns the end date of the first pattern       *)
(* exactly when that pattern matches, "Current incumbent" exactly when it  *)
(* fails and the one fallback pattern matches, and raises AttributeError   *)
(* exactly when both fail; get_incumbency_start tries its two patterns in  *)
(* the same order and returns the start date of the one that matched.      *)
(***************************************************************************)
C9_FallbackOrder ==
  /\ (called.fn = "get_incumbency_end" /\ HasText) =>
       /\ get_match(WikiText, "end_primary").kind = "return"
            <=> ( /\ called.kind = "return"
                  /\ called.value # CurrentIncumbent
                  /\ called.value = get_match(WikiText, "end_primary").value )
       /\ ( /\ get_match(WikiText, "end_primary").kind = "raise"
            /\ get_match(WikiText, "assumed").kind = "return" )
            <=> (called.kind = "return" /\ called.value = CurrentIncumbent)
       /\ ( /\ get_match(WikiText, "end_primary").kind = "raise"
            /\ get_match(WikiText, "assumed").kind = "raise" )
            <=> (called.kind = "raise" /\ called.exc = "AttributeError")
  /\ (called.fn = "get_incumbency_start" /\ HasText) =>
       IF get_match(WikiText, "start_primary").kind = "return"
         THEN /\ called.kind = "return"
              /\ called.value = get_match(WikiText, "start_primary").value
       ELSE IF get_match(WikiText, "assumed").kind = "return"
         THEN /\ called.kind = "return"
              /\ called.value = get_match(WikiText, "assumed").value
       ELSE called.kind = "raise" /\ called.exc = "AttributeError"

\* get_incumbency_end has answered "Current incumbent" for a text in which
\* the first pattern of the start date matches, that of the end date does
\* not, and the fallback does
C9_Witness ==
  /\ called.fn = "get_incumbency_end"
  /\ HasText
  /\ get_match(WikiText, "start_primary").kind = "return"
  /\ get_match(WikiText, "end_primary").kind = "raise"
  /\ get_match(WikiText, "assumed").kind = "return"
  /\ called.kind = "return"
  /\ called.value = CurrentIncumbent

(***************************************************************************)
(* C10.  previous_name changes only in a call that took the literal path   *)
(* and whose handler returned, and is then the first captured token; in    *)
(* every other outcome (no match, the pronoun path, a handler or the       *)
(* dispatcher raising) it keeps the value it had before the call.          *)
(***************************************************************************)
C10_Step ==
  IF last'.path = "literal" /\ last'.handler = "returned" /\ last'.mat.tokens # <<>>
    THEN previous_name' = last'.mat.tokens[1]
    ELSE previous_name' = previous_name

C10_ContextFrame == [][C10_Step]_vars

\* a call on the literal path has replaced one remembered name by another
C10_Witness ==
  /\ Asked
  /\ last.path = "literal"
  /\ last.handler = "returned"
  /\ last.kind = "return"
  /\ last.was # <<>>
  /\ previous_name # last.was
  /\ previous_name = last.mat.tokens[1]

====
